---------------------------- MODULE Spec2Model ----------------------------
(***************************************************************************)
(* Model of the two entry flows of ann-benchmarks/data_export.py (the      *)
(* exporter) and ann-benchmarks/plot.py (the plotter).                     *)
(*                                                                         *)
(* The exporter and the plotter are scripts; each is modelled as a         *)
(* sequential process whose position is pc.  The collaborators imported    *)
(* from the ann_benchmarks package (results store, dataset provider,       *)
(* metrics engine, point-set reducer) are not part of the source files;    *)
(* they are modelled from the specification of the repository.  The        *)
(* plotter's --dataset and --outputdir and the exporter's --output are     *)
(* held at one value each.  Of matplotlib the model has whether a call of  *)
(* create_plot ends with an image or with an exception; the styling of the *)
(* axes is not represented.                                                *)
(***************************************************************************)
EXTENDS Integers, Sequences, FiniteSets, TLC

VARIABLES
    pc,             \* position of the running script
    datasets,       \* data_export.py:40  DATASETS.keys(), in dict order
    store,          \* results store: dataset name -> stored run records
    di,             \* index of the dataset the for loop of line 42 is at
    dfs,            \* data_export.py:41  the collected rows
    providerCalls,  \* dataset names get_dataset was called with, in order
    engineCalls,    \* dataset names compute_metrics_all_runs was called for
    priorFile,      \* the output file before the invocation
    file,           \* the output file: [exists, header, rows]
    fileOpen,       \* whether the handle of line 52 is open
    opens,          \* number of open(args.output, "w") calls
    wi,             \* index of the row the for loop of line 56 is at
    raised,         \* the exception that ended the invocation, or NoError
    unique_algorithms, \* plot.py:168  in the order the script iterates them
    args_algo,      \* plot.py:135  --algo, or None
    args_raw,       \* plot.py:155  --raw
    x_axis,         \* plot.py:139  --x-axis
    y_axis,         \* plot.py:142  --y-axis
    x_scale,        \* plot.py:145  --x-scale, the code points of its characters
    args_output,    \* plot.py:133  -o/--output, or None
    args_batch,     \* plot.py:157  --batch
    runs,           \* plot.py:171  algorithm -> its projected records
    grouped_algos,  \* plot.py:180  base -> members, in insertion order
    algo_to_group,  \* plot.py:181
    args_group,     \* plot.py:190
    gi,             \* index of the group the for loop of line 195 is at
    plots           \* the image files written by create_plot, in order

exportVars == <<datasets, store, di, dfs, providerCalls, engineCalls,
                priorFile, file, fileOpen, opens, wi>>

\* What the plotter reads and never assigns after line 171.
plotArgs == <<unique_algorithms, args_algo, args_raw, x_axis, y_axis, x_scale,
              args_output, args_batch, runs>>

plotVars == <<plotArgs, grouped_algos, algo_to_group, args_group, gi, plots>>

vars == <<pc, raised, exportVars, plotVars>>

-----------------------------------------------------------------------------
(* Bounds of the model *)

MaxDatasets == 2

MaxRuns == 2

MaxAlgos == 3

MaxPoints == 3

MaxVal == 3

-----------------------------------------------------------------------------
(* Helpers *)

Range(s) == { s[k] : k \in DOMAIN s }

SeqsUpTo(S, n) == UNION { [1..k -> S] : k \in 0..n }

RECURSIVE Concat(_)
Concat(ss) == IF ss = <<>> THEN <<>> ELSE Head(ss) \o Concat(Tail(ss))

NoError == "none"

\* Python's None where the plotter holds an algorithm or group name.
None == <<"None">>

-----------------------------------------------------------------------------
(* Collaborators of the exporter (ann_benchmarks package) *)

\* DATASETS: the registry of known datasets, a dict in a fixed key order.
DATASETS == <<"glove", "sift", "gist", "mnist">>

\* Identities of the stored runs of one dataset, by position in the store.
RunIds == <<"r1", "r2", "r3", "r4">>

\* The kinds of stored run record the model distinguishes: a well-formed
\* record whose raw data has no distance-computation counter, a well-formed
\* record that has it, and a record whose neighbor array is shorter than
\* the query count.
RunKinds == {"plain", "counted", "malformed"}

\* Columns in the order the metrics engine inserts them in a record.
KeyOrder == <<"algorithm", "parameters", "k-nn", "distcomp", "dataset">>

\* load_all_results(dataset_name, batch_mode=True): the stored run records
\* of the dataset, each with its identity; read-only and repeatable.
load_all_results(st, dataset_name) ==
    [k \in DOMAIN st[dataset_name] |->
        [id |-> RunIds[k], kind |-> st[dataset_name][k]]]

\* get_dataset(dataset_name): the ground truth of the dataset.
get_dataset(dataset_name) == [truth |-> dataset_name]

\* The MetricRecord derived from one well-formed run record: distcomp is
\* absent (not zero) when the raw record does not supply the counter.
MetricRecord(run) ==
    LET base == [k \in {"algorithm", "parameters", "k-nn"} |->
                    CASE k = "algorithm"  -> "algo"
                      [] k = "parameters" -> run.id
                      [] OTHER            -> "0.5"]
    IN  IF run.kind = "counted" THEN ("distcomp" :> "7") @@ base ELSE base

WellFormed(run) == run.kind # "malformed"

\* compute_metrics_all_runs(dataset, results, recompute): one MetricRecord
\* per well-formed run record, in store order; a malformed record is
\* skipped and does not fail the batch.
compute_metrics_all_runs(dataset, results) ==
    LET good == SelectSeq(results, WellFormed)
    IN  [k \in DOMAIN good |-> MetricRecord(good[k])]

-----------------------------------------------------------------------------
(* data_export.py *)

NoFile == [exists |-> FALSE, header |-> <<>>, rows |-> <<>>]

OldFile == [exists |-> TRUE, header |-> <<"stale">>, rows |-> <<<<"x">>>>]

\* list(d.keys()) of a record d, in insertion order.
Keys(d) == SelectSeq(KeyOrder, LAMBDA k : k \in DOMAIN d)

\* Faulty variant of SetDataset: the name of the first known dataset is stored.
SetDatasetStale(res, dataset_name) == ("dataset" :> DATASETS[1]) @@ res

\* res["dataset"] = dataset_name (line 49).
SetDataset(res, dataset_name) == ("dataset" :> dataset_name) @@ res

\* Faulty variant of HasRuns: the test of line 44 written as >= 0.
HasRunsAlways(st, dataset_name) == Len(load_all_results(st, dataset_name)) >= 0

\* The test of line 44: the store yields at least one run record.
HasRuns(st, dataset_name) == Len(load_all_results(st, dataset_name)) > 0

\* Lines 44-50 for one dataset: the rows the loop body appends to dfs.
ExportRows(st, dataset_name) ==
    IF HasRuns(st, dataset_name)
    THEN LET results == load_all_results(st, dataset_name)
             dataset == get_dataset(dataset_name)
             metrics == compute_metrics_all_runs(dataset, results)
         IN  [k \in DOMAIN metrics |-> SetDataset(metrics[k], dataset_name)]
    ELSE <<>>

\* Faulty variant of HasRows: the test of line 51 written as >= 0.
HasRowsAlways(rows) == Len(rows) >= 0

\* The test of line 51.
HasRows(rows) == Len(rows) > 0

\* csv.DictWriter.writerow: raises ValueError when the row has a key that
\* is not a field name (extrasaction defaults to "raise").
ExtraKeys(res, names) == DOMAIN res \ Range(names)

\* csv.DictWriter.writerow: the values in field order, a missing key
\* written as the empty string (restval).
RowValues(res, names) ==
    [k \in DOMAIN names |-> IF names[k] \in DOMAIN res THEN res[names[k]] ELSE ""]

\* The plotter's state while the exporter runs.
PlotIdle ==
    /\ unique_algorithms = <<>>
    /\ args_algo = None
    /\ args_raw = FALSE
    /\ x_axis = "k-nn"
    /\ y_axis = "qps"
    /\ x_scale = <<>>
    /\ args_output = None
    /\ args_batch = FALSE
    /\ runs = <<>>
    /\ grouped_algos = <<>>
    /\ algo_to_group = <<>>
    /\ args_group = None
    /\ gi = 1
    /\ plots = <<>>

InitExport ==
    /\ pc = "export_loop"
    /\ \E n \in 0..MaxDatasets :
          /\ datasets = SubSeq(DATASETS, 1, n)
          /\ store \in [Range(SubSeq(DATASETS, 1, n)) -> SeqsUpTo(RunKinds, MaxRuns)]
    /\ di = 1
    /\ dfs = <<>>
    /\ providerCalls = <<>>
    /\ engineCalls = <<>>
    /\ priorFile \in {NoFile, OldFile}
    /\ file = priorFile
    /\ fileOpen = FALSE
    /\ opens = 0
    /\ wi = 1
    /\ raised = NoError
    /\ PlotIdle

\* Lines 42-50: one iteration of the loop over the datasets.
ExportDataset ==
    /\ pc = "export_loop"
    /\ di <= Len(datasets)
    /\ LET dataset_name == datasets[di]
       IN  /\ dfs' = dfs \o ExportRows(store, dataset_name)
           /\ providerCalls' = IF HasRuns(store, dataset_name)
                                THEN Append(providerCalls, dataset_name)
                                ELSE providerCalls
           /\ engineCalls' = IF HasRuns(store, dataset_name)
                              THEN Append(engineCalls, dataset_name)
                              ELSE engineCalls
    /\ di' = di + 1
    /\ UNCHANGED <<pc, datasets, store, priorFile, file, fileOpen, opens, wi, raised>>
    /\ UNCHANGED plotVars

\* Line 51, len(dfs) = 0: nothing is opened and the script ends.
ExportNothing ==
    /\ pc = "export_loop"
    /\ di > Len(datasets)
    /\ ~ HasRows(dfs)
    /\ pc' = "done"
    /\ UNCHANGED <<exportVars, raised>>
    /\ UNCHANGED plotVars

\* Lines 51-52: open(args.output, "w") creates or truncates the file.
OpenOutput ==
    /\ pc = "export_loop"
    /\ di > Len(datasets)
    /\ HasRows(dfs)
    /\ file' = [exists |-> TRUE, header |-> <<>>, rows |-> <<>>]
    /\ fileOpen' = TRUE
    /\ opens' = opens + 1
    /\ pc' = "export_header"
    /\ UNCHANGED <<datasets, store, di, dfs, providerCalls, engineCalls,
                   priorFile, wi, raised>>
    /\ UNCHANGED plotVars

\* Lines 53-55: the field names are the keys of the first row.
WriteHeader ==
    /\ pc = "export_header"
    /\ file' = [file EXCEPT !.header = Keys(dfs[1])]
    /\ pc' = "export_rows"
    /\ UNCHANGED <<datasets, store, di, dfs, providerCalls, engineCalls,
                   priorFile, fileOpen, opens, wi, raised>>
    /\ UNCHANGED plotVars

\* Lines 56-57: one row is written.
WriteRow ==
    /\ pc = "export_rows"
    /\ wi <= Len(dfs)
    /\ ExtraKeys(dfs[wi], file.header) = {}
    /\ file' = [file EXCEPT !.rows = Append(@, RowValues(dfs[wi], file.header))]
    /\ wi' = wi + 1
    /\ UNCHANGED <<pc, datasets, store, di, dfs, providerCalls, engineCalls,
                   priorFile, fileOpen, opens, raised>>
    /\ UNCHANGED plotVars

\* Line 57 raises ValueError; the with block closes the file and the
\* exception ends the script.
WriteRowRaises ==
    /\ pc = "export_rows"
    /\ wi <= Len(dfs)
    /\ ExtraKeys(dfs[wi], file.header) # {}
    /\ fileOpen' = FALSE
    /\ raised' = "ValueError"
    /\ pc' = "failed"
    /\ UNCHANGED <<datasets, store, di, dfs, providerCalls, engineCalls,
                   priorFile, file, opens, wi>>
    /\ UNCHANGED plotVars

\* End of the with block of line 52: the file is closed.
CloseOutput ==
    /\ pc = "export_rows"
    /\ wi > Len(dfs)
    /\ fileOpen' = FALSE
    /\ pc' = "done"
    /\ UNCHANGED <<datasets, store, di, dfs, providerCalls, engineCalls,
                   priorFile, file, opens, wi, raised>>
    /\ UNCHANGED plotVars

NextExport ==
    \/ ExportDataset
    \/ ExportNothing
    \/ OpenOutput
    \/ WriteHeader
    \/ WriteRow
    \/ WriteRowRaises
    \/ CloseOutput

SpecExport == InitExport /\ [][NextExport]_vars

-----------------------------------------------------------------------------
(* Collaborators of the plotter (ann_benchmarks package) *)

\* Algorithm names, as sequences of characters.
AlgoNames == { <<"p">>, <<"p", "-", "a">>, <<"q", "-", "a">>, <<"r">> }

\* all_metrics: the registry of named metrics with the orientation of each.
metrics ==
    [m \in {"k-nn", "qps", "distcomp", "build"} |->
        [better |-> IF m \in {"k-nn", "qps"} THEN "higher" ELSE "lower"]]

\* Whether value a is strictly better than value b for metric m.
Better(m, a, b) == IF metrics[m].better = "higher" THEN a > b ELSE a < b

\* A record projected on the two chosen metrics: a mapping with the keys
\* "x" and "y", a key being absent when the record lacks that metric.
Projected(rec) == "x" \in DOMAIN rec /\ "y" \in DOMAIN rec

\* Sort order of the reducer: ascending along x in x's improving
\* direction, points of equal x ascending along y in y's improving
\* direction.
Before(p, q, xn, yn) ==
    \/ Better(xn, q["x"], p["x"])
    \/ p["x"] = q["x"] /\ Better(yn, q["y"], p["y"])

RECURSIVE SortedInsert(_, _, _, _)
SortedInsert(p, s, xn, yn) ==
    IF s = <<>> THEN <<p>>
    ELSE IF Before(p, Head(s), xn, yn) THEN <<p>> \o s
    ELSE <<Head(s)>> \o SortedInsert(p, Tail(s), xn, yn)

RECURSIVE SortPoints(_, _, _)
SortPoints(pts, xn, yn) ==
    IF pts = <<>> THEN <<>>
    ELSE SortedInsert(pts[Len(pts)], SortPoints(SubSeq(pts, 1, Len(pts) - 1), xn, yn), xn, yn)

\* The skyline sweep over the sorted points, from the best x down: a point
\* is retained only if its y improves on the best y retained so far.
RECURSIVE Sweep(_, _, _, _)
Sweep(s, k, acc, yn) ==
    IF k = 0 THEN acc
    ELSE IF acc = <<>> \/ Better(yn, s[k]["y"], Head(acc)["y"])
         THEN Sweep(s, k - 1, <<s[k]>> \o acc, yn)
         ELSE Sweep(s, k - 1, acc, yn)

\* create_pointset(data, xn, yn): the frontier (xs, ys) and the full raw
\* point cloud (axs, ays) of one algorithm's records; records missing
\* either metric are dropped.  The labels it also returns are not used by
\* plot.py and are left out.
create_pointset(data, xn, yn) ==
    LET pts == SortPoints(SelectSeq(data, Projected), xn, yn)
        front == Sweep(pts, Len(pts), <<>>, yn)
    IN  [xs  |-> [k \in DOMAIN front |-> front[k]["x"]],
         ys  |-> [k \in DOMAIN front |-> front[k]["y"]],
         axs |-> [k \in DOMAIN pts |-> pts[k]["x"]],
         ays |-> [k \in DOMAIN pts |-> pts[k]["y"]]]

-----------------------------------------------------------------------------
(* plot.py *)

\* A string is the sequence of the code points of its characters.  The
\* --x-scale values of the model: "linear", the custom scale "a1.5", "abc"
\* whose rest is no number, "a0" whose number is zero, "a-1" whose number
\* is negative, "foo" that names no scale, and the empty string.
Linear == <<108, 105, 110, 101, 97, 114>>

XScales ==
    { Linear, <<97, 49, 46, 53>>, <<97, 98, 99>>, <<97, 48>>, <<97, 45, 49>>, <<102, 111, 111>>, <<>> }

\* The white space float strips: that of ASCII and, in a string with other
\* characters, every character str.isspace knows above ASCII.
AsciiSpace == {9, 10, 11, 12, 13, 32}

UnicodeSpace ==
    {133, 160, 5760} \cup (8192..8202) \cup {8232, 8233, 8239, 8287, 12288}

\* The code points of the digits zero of the decimal digits float knows
\* (Unicode 14), the digits one to nine of each following its zero.
DecimalZeros ==
    { 48, 1632, 1776, 1984, 2406, 2534, 2662, 2790, 2918, 3046,
      3174, 3302, 3430, 3558, 3664, 3792, 3872, 4160, 4240, 6112,
      6160, 6470, 6608, 6784, 6800, 6992, 7088, 7232, 7248, 42528,
      43216, 43264, 43472, 43504, 43600, 44016, 65296, 66720, 68912, 69734,
      69872, 69942, 70096, 70384, 70736, 70864, 71248, 71360, 71472, 71904,
      72016, 72784, 73040, 73120, 92768, 92864, 93008, 120782, 120792, 120802,
      120812, 120822, 123200, 123632, 125264, 130032 }

\* The ASCII character float reads for character c: white space above
\* ASCII is a space, a decimal digit is its ASCII digit, any other
\* character above ASCII is "?".
ToAscii(c) ==
    IF c < 128 THEN c
    ELSE IF c \in UnicodeSpace THEN 32
    ELSE IF \E z \in DecimalZeros : c \in z..(z + 9)
         THEN 48 + c - (CHOOSE z \in DecimalZeros : c \in z..(z + 9))
    ELSE 63

Ascii(s) == [k \in DOMAIN s |-> ToAscii(s[k])]

\* s without the white space at its two ends.
Strip(s) ==
    LET kept == { k \in DOMAIN s : s[k] \notin AsciiSpace }
    IN  IF kept = {} THEN <<>>
        ELSE SubSeq(s, CHOOSE k \in kept : \A j \in kept : k <= j,
                       CHOOSE k \in kept : \A j \in kept : j <= k)

\* s without its sign "+" or "-".
Unsigned(s) == IF s # <<>> /\ Head(s) \in {43, 45} THEN Tail(s) ELSE s

\* s with its ASCII capitals in lower case.
Lower(s) == [k \in DOMAIN s |-> IF s[k] \in 65..90 THEN s[k] + 32 ELSE s[k]]

Digits == 48..57

\* Digits, with single underscores between them.
DigitPart(t) ==
    /\ t # <<>>
    /\ t[1] \in Digits
    /\ t[Len(t)] \in Digits
    /\ \A k \in DOMAIN t : t[k] \in Digits \cup {95}
    /\ \A k \in 1..(Len(t) - 1) : ~ (t[k] = 95 /\ t[k + 1] = 95)

\* The place of the first character of s that is in C, Len(s) + 1 without one.
First(s, C) ==
    LET at == { k \in DOMAIN s : s[k] \in C }
    IN  IF at = {} THEN Len(s) + 1 ELSE CHOOSE k \in at : \A j \in at : k <= j

\* The parts of a number: before and after the point ".", and after the
\* "e" or "E" of the exponent.
Parts(s) ==
    LET e == First(s, {101, 69})
        mantissa == SubSeq(s, 1, e - 1)
        d == First(mantissa, {46})
    IN  [whole |-> SubSeq(mantissa, 1, d - 1),
         fraction |-> SubSeq(mantissa, d + 1, Len(mantissa)),
         hasExponent |-> e <= Len(s),
         exponent |-> SubSeq(s, e + 1, Len(s))]

\* A decimal number: digits with at most one point, then an exponent or none.
Decimal(s) ==
    LET p == Parts(s)
    IN  /\ p.hasExponent => DigitPart(Unsigned(p.exponent))
        /\ p.whole = <<>> \/ DigitPart(p.whole)
        /\ p.fraction = <<>> \/ DigitPart(p.fraction)
        /\ p.whole # <<>> \/ p.fraction # <<>>

\* The names float knows: "inf", "infinity" and "nan".
FloatNames == { <<105, 110, 102>>, <<105, 110, 102, 105, 110, 105, 116, 121>>, <<110, 97, 110>> }

\* Whether float(s) returns (line 56): around white space, a sign or none,
\* then a name in any case or a decimal number.
ParsesAsFloat(s) ==
    LET body == Unsigned(Strip(Ascii(s)))
    IN  Lower(body) \in FloatNames \/ Decimal(body)

IsDigit(c) == c \in Digits

\* The values of the digits of t, its underscores left out.
DigitsOf(t) == LET ds == SelectSeq(t, IsDigit) IN [k \in DOMAIN ds |-> ds[k] - 48]

\* ds from its first digit that is not zero.
Significant(ds) == SubSeq(ds, First(ds, 1..9), Len(ds))

RECURSIVE Number(_)
Number(ds) ==
    IF ds = <<>> THEN 0 ELSE 10 * Number(SubSeq(ds, 1, Len(ds) - 1)) + ds[Len(ds)]

\* An exponent of ten digits or more stands for this one.
HugeExponent == 1000000000

\* The number the exponent part x says.
ExponentOf(x) ==
    LET ds == Significant(DigitsOf(x))
        n == IF Len(ds) > 9 THEN HugeExponent ELSE Number(ds)
    IN  IF x # <<>> /\ Head(x) = 45 THEN 0 - n ELSE n

\* -1, 0 or 1 as the digits a, read after one point, say less than, the
\* same as or more than the digits b.
Compare(a, b) ==
    LET at(s, k) == IF k <= Len(s) THEN s[k] ELSE 0
        n == IF Len(a) > Len(b) THEN Len(a) ELSE Len(b)
        differ == { k \in 1..n : at(a, k) # at(b, k) }
        k1 == CHOOSE k \in differ : \A j \in differ : k <= j
    IN  IF differ = {} THEN 0 ELSE IF at(a, k1) < at(b, k1) THEN -1 ELSE 1

\* The digits of 2^-1075, half of the least double above zero, which is
\* these digits times 10^-324 with the point after the first: a number up
\* to it is read as zero.
HalfMinDigits ==
    << 2, 4, 7, 0, 3, 2, 8, 2, 2, 9, 2, 0, 6, 2, 3, 2, 7, 2, 0, 8, 8, 2, 8, 4, 3, 9, 6, 4, 3, 4,
       1, 1, 0, 6, 8, 6, 1, 8, 2, 5, 2, 9, 9, 0, 1, 3, 0, 7, 1, 6, 2, 3, 8, 2, 2, 1, 2, 7, 9, 2,
       8, 4, 1, 2, 5, 0, 3, 3, 7, 7, 5, 3, 6, 3, 5, 1, 0, 4, 3, 7, 5, 9, 3, 2, 6, 4, 9, 9, 1, 8,
       1, 8, 0, 8, 1, 7, 9, 9, 6, 1, 8, 9, 8, 9, 8, 2, 8, 2, 3, 4, 7, 7, 2, 2, 8, 5, 8, 8, 6, 5,
       4, 6, 3, 3, 2, 8, 3, 5, 5, 1, 7, 7, 9, 6, 9, 8, 9, 8, 1, 9, 9, 3, 8, 7, 3, 9, 8, 0, 0, 5,
       3, 9, 0, 9, 3, 9, 0, 6, 3, 1, 5, 0, 3, 5, 6, 5, 9, 5, 1, 5, 5, 7, 0, 2, 2, 6, 3, 9, 2, 2,
       9, 0, 8, 5, 8, 3, 9, 2, 4, 4, 9, 1, 0, 5, 1, 8, 4, 4, 3, 5, 9, 3, 1, 8, 0, 2, 8, 4, 9, 9,
       3, 6, 5, 3, 6, 1, 5, 2, 5, 0, 0, 3, 1, 9, 3, 7, 0, 4, 5, 7, 6, 7, 8, 2, 4, 9, 2, 1, 9, 3,
       6, 5, 6, 2, 3, 6, 6, 9, 8, 6, 3, 6, 5, 8, 4, 8, 0, 7, 5, 7, 0, 0, 1, 5, 8, 5, 7, 6, 9, 2,
       6, 9, 9, 0, 3, 7, 0, 6, 3, 1, 1, 9, 2, 8, 2, 7, 9, 5, 5, 8, 5, 5, 1, 3, 3, 2, 9, 2, 7, 8,
       3, 4, 3, 3, 8, 4, 0, 9, 3, 5, 1, 9, 7, 8, 0, 1, 5, 5, 3, 1, 2, 4, 6, 5, 9, 7, 2, 6, 3, 5,
       7, 9, 5, 7, 4, 6, 2, 2, 7, 6, 6, 4, 6, 5, 2, 7, 2, 8, 2, 7, 2, 2, 0, 0, 5, 6, 3, 7, 4, 0,
       0, 6, 4, 8, 5, 4, 9, 9, 9, 7, 7, 0, 9, 6, 5, 9, 9, 4, 7, 0, 4, 5, 4, 0, 2, 0, 8, 2, 8, 1,
       6, 6, 2, 2, 6, 2, 3, 7, 8, 5, 7, 3, 9, 3, 4, 5, 0, 7, 3, 6, 3, 3, 9, 0, 0, 7, 9, 6, 7, 7,
       6, 1, 9, 3, 0, 5, 7, 7, 5, 0, 6, 7, 4, 0, 1, 7, 6, 3, 2, 4, 6, 7, 3, 6, 0, 0, 9, 6, 8, 9,
       5, 1, 3, 4, 0, 5, 3, 5, 5, 3, 7, 4, 5, 8, 5, 1, 6, 6, 6, 1, 1, 3, 4, 2, 2, 3, 7, 6, 6, 6,
       7, 8, 6, 0, 4, 1, 6, 2, 1, 5, 9, 6, 8, 0, 4, 6, 1, 9, 1, 4, 4, 6, 7, 2, 9, 1, 8, 4, 0, 3,
       0, 0, 5, 3, 0, 0, 5, 7, 5, 3, 0, 8, 4, 9, 0, 4, 8, 7, 6, 5, 3, 9, 1, 7, 1, 1, 3, 8, 6, 5,
       9, 1, 6, 4, 6, 2, 3, 9, 5, 2, 4, 9, 1, 2, 6, 2, 3, 6, 5, 3, 8, 8, 1, 8, 7, 9, 6, 3, 6, 2,
       3, 9, 3, 7, 3, 2, 8, 0, 4, 2, 3, 8, 9, 1, 0, 1, 8, 6, 7, 2, 3, 4, 8, 4, 9, 7, 6, 6, 8, 2,
       3, 5, 0, 8, 9, 8, 6, 3, 3, 8, 8, 5, 8, 7, 9, 2, 5, 6, 2, 8, 3, 0, 2, 7, 5, 5, 9, 9, 5, 6,
       5, 7, 5, 2, 4, 4, 5, 5, 5, 0, 7, 2, 5, 5, 1, 8, 9, 3, 1, 3, 6, 9, 0, 8, 3, 6, 2, 5, 4, 7,
       7, 9, 1, 8, 6, 9, 4, 8, 6, 6, 7, 9, 9, 4, 9, 6, 8, 3, 2, 4, 0, 4, 9, 7, 0, 5, 8, 2, 1, 0,
       2, 8, 5, 1, 3, 1, 8, 5, 4, 5, 1, 3, 9, 6, 2, 1, 3, 8, 3, 7, 7, 2, 2, 8, 2, 6, 1, 4, 5, 4,
       3, 7, 6, 9, 3, 4, 1, 2, 5, 3, 2, 0, 9, 8, 5, 9, 1, 3, 2, 7, 6, 6, 7, 2, 3, 6, 3, 2, 8, 1,
       2, 5 >>

HalfMinExponent == 0 - 324

\* The digits of 2^1024 - 2^970, half way from the greatest double to
\* 2^1024, which is these digits times 10^308: a number from it on is read
\* as infinity.
HalfMaxDigits ==
    << 1, 7, 9, 7, 6, 9, 3, 1, 3, 4, 8, 6, 2, 3, 1, 5, 8, 0, 7, 9, 3, 7, 2, 8, 9, 7, 1, 4, 0, 5,
       3, 0, 3, 4, 1, 5, 0, 7, 9, 9, 3, 4, 1, 3, 2, 7, 1, 0, 0, 3, 7, 8, 2, 6, 9, 3, 6, 1, 7, 3,
       7, 7, 8, 9, 8, 0, 4, 4, 4, 9, 6, 8, 2, 9, 2, 7, 6, 4, 7, 5, 0, 9, 4, 6, 6, 4, 9, 0, 1, 7,
       9, 7, 7, 5, 8, 7, 2, 0, 7, 0, 9, 6, 3, 3, 0, 2, 8, 6, 4, 1, 6, 6, 9, 2, 8, 8, 7, 9, 1, 0,
       9, 4, 6, 5, 5, 5, 5, 4, 7, 8, 5, 1, 9, 4, 0, 4, 0, 2, 6, 3, 0, 6, 5, 7, 4, 8, 8, 6, 7, 1,
       5, 0, 5, 8, 2, 0, 6, 8, 1, 9, 0, 8, 9, 0, 2, 0, 0, 0, 7, 0, 8, 3, 8, 3, 6, 7, 6, 2, 7, 3,
       8, 5, 4, 8, 4, 5, 8, 1, 7, 7, 1, 1, 5, 3, 1, 7, 6, 4, 4, 7, 5, 7, 3, 0, 2, 7, 0, 0, 6, 9,
       8, 5, 5, 5, 7, 1, 3, 6, 6, 9, 5, 9, 6, 2, 2, 8, 4, 2, 9, 1, 4, 8, 1, 9, 8, 6, 0, 8, 3, 4,
       9, 3, 6, 4, 7, 5, 2, 9, 2, 7, 1, 9, 0, 7, 4, 1, 6, 8, 4, 4, 4, 3, 6, 5, 5, 1, 0, 7, 0, 4,
       3, 4, 2, 7, 1, 1, 5, 5, 9, 6, 9, 9, 5, 0, 8, 0, 9, 3, 0, 4, 2, 8, 8, 0, 1, 7, 7, 9, 0, 4,
       1, 7, 4, 4, 9, 7, 7, 9, 2 >>

HalfMaxExponent == 308

\* What float(s) is, for an s it parses: "zero" (0.0 or -0.0), "positive"
\* (above zero and finite) or "other" (negative, infinite or nan).
FloatKind(s) ==
    LET stripped == Strip(Ascii(s))
        body == Unsigned(stripped)
        p == Parts(body)
        whole == DigitsOf(p.whole)
        all == whole \o DigitsOf(p.fraction)
        lead == First(all, 1..9)
        digits == Significant(all)
        e == Len(whole) - lead + ExponentOf(p.exponent)
    IN  IF Lower(body) \in FloatNames THEN "other"
        ELSE IF digits = <<>> THEN "zero"
        ELSE IF e < HalfMinExponent
                \/ (e = HalfMinExponent /\ Compare(digits, HalfMinDigits) <= 0)
             THEN "zero"
        ELSE IF Head(stripped) = 45 THEN "other"
        ELSE IF e > HalfMaxExponent
                \/ (e = HalfMaxExponent /\ Compare(digits, HalfMaxDigits) >= 0)
             THEN "other"
        ELSE "positive"

\* The scales ax.set_xscale (line 76) takes by name alone, and the two it
\* knows that need the functions the call does not give.
ScaleNames == { Linear, <<108, 111, 103>>, <<115, 121, 109, 108, 111, 103>>, <<108, 111, 103, 105, 116>> }

FunctionScaleNames == { <<102, 117, 110, 99, 116, 105, 111, 110>>, <<102, 117, 110, 99, 116, 105, 111, 110, 108, 111, 103>> }

\* Some exception of matplotlib's while it draws.
DrawError == "DrawError"

\* Lines 55-76 and the drawing of line 97: the ways a call of create_plot
\* can end for an --x-scale, NoError standing for its return.
\*  - x_scale[0] raises IndexError on the empty string;
\*  - after "a", float(x_scale[1:]) raises ValueError on what is no number;
\*    1 / alpha (line 59) raises ZeroDivisionError when matplotlib calls fun
\*    for alpha zero; with alpha positive and finite the scale is drawn,
\*    and with any other alpha fun and inv_fun are no scale of the unit
\*    interval and the drawing may raise or not;
\*  - any other value goes to ax.set_xscale: "linear", "log" and "symlog"
\*    are drawn; "logit" is given the limits of line 91, which on data
\*    outside (0, 1) are no interval, and may raise or not; "function" and
\*    "functionlog" lack their functions (TypeError); an unknown name raises
\*    ValueError, and a known name in other case is taken or not by the
\*    release of matplotlib.
\* A failure comes before the image is written.  --y-scale is one of the
\* four names argparse lets through (line 151) and is drawn.
ScaleErrors(scale) ==
    IF scale = <<>> THEN {"IndexError"}
    ELSE IF Head(scale) = 97
    THEN IF ~ ParsesAsFloat(Tail(scale)) THEN {"ValueError"}
         ELSE IF FloatKind(Tail(scale)) = "zero" THEN {"ZeroDivisionError"}
         ELSE IF FloatKind(Tail(scale)) = "positive" THEN {NoError}
         ELSE {NoError, DrawError}
    ELSE IF scale = <<108, 111, 103, 105, 116>> THEN {NoError, DrawError}
    ELSE IF scale \in ScaleNames THEN {NoError}
    ELSE IF scale \in FunctionScaleNames THEN {"TypeError"}
    ELSE IF Lower(scale) = <<108, 111, 103, 105, 116>> THEN {NoError, DrawError, "ValueError"}
    ELSE IF Lower(scale) \in ScaleNames THEN {NoError, "ValueError"}
    ELSE IF Lower(scale) \in FunctionScaleNames THEN {"TypeError", "ValueError"}
    ELSE {"ValueError"}

\* Faulty variant of create_plot: the raw cloud is drawn as the primary curve.
create_plot_raw(all_data, raw, scale, xn, yn, fn_out) ==
    [raises |-> ScaleErrors(scale),
     image |->
        [fn_out |-> fn_out,
         curves |-> [algo \in DOMAIN all_data |->
                        LET ps == create_pointset(all_data[algo], xn, yn)
                        IN  [xs |-> ps.axs, ys |-> ps.ays]],
         faded  |-> [algo \in (IF raw THEN DOMAIN all_data ELSE {}) |->
                        LET ps == create_pointset(all_data[algo], xn, yn)
                        IN  [xs |-> ps.axs, ys |-> ps.ays]]]]

\* Faulty variant of create_plot: the two series of the primary curve are swapped.
create_plot_swapped(all_data, raw, scale, xn, yn, fn_out) ==
    [raises |-> ScaleErrors(scale),
     image |->
        [fn_out |-> fn_out,
         curves |-> [algo \in DOMAIN all_data |->
                        LET ps == create_pointset(all_data[algo], xn, yn)
                        IN  [xs |-> ps.ys, ys |-> ps.xs]],
         faded  |-> [algo \in (IF raw THEN DOMAIN all_data ELSE {}) |->
                        LET ps == create_pointset(all_data[algo], xn, yn)
                        IN  [xs |-> ps.axs, ys |-> ps.ays]]]]

\* Lines 18-98.  raises is the ways the call can end for x_scale; with an
\* exception no image is written.  Otherwise image is the
\* file written to fn_out: for each algorithm of all_data the primary curve
\* is the frontier (xs, ys) and, with raw, the faded curve is the raw cloud
\* (axs, ays).  The order in which the curves are drawn is not represented.
\* linestyles[algo] (line 36) has every algorithm of runs, which are among
\* unique_algorithms.
create_plot(all_data, raw, scale, xn, yn, fn_out) ==
    [raises |-> ScaleErrors(scale),
     image |->
        [fn_out |-> fn_out,
         curves |-> [algo \in DOMAIN all_data |->
                        LET ps == create_pointset(all_data[algo], xn, yn)
                        IN  [xs |-> ps.xs, ys |-> ps.ys]],
         faded  |-> [algo \in (IF raw THEN DOMAIN all_data ELSE {}) |->
                        LET ps == create_pointset(all_data[algo], xn, yn)
                        IN  [xs |-> ps.axs, ys |-> ps.ays]]]]

\* algo.split("-")[0] (line 185): the characters before the first "-".
RECURSIVE Base(_)
Base(algo) ==
    IF algo = <<>> \/ Head(algo) = "-" THEN <<>>
    ELSE <<Head(algo)>> \o Base(Tail(algo))

\* Position of base among the keys of the ordered mapping groups, 0 if
\* it is no key.
KeyIndex(groups, base) ==
    IF \E k \in DOMAIN groups : groups[k].base = base
    THEN CHOOSE k \in DOMAIN groups : groups[k].base = base
    ELSE 0

\* grouped_algos[base].append(algo) on a defaultdict(list) (line 186).
AppendToGroup(groups, base, algo) ==
    IF KeyIndex(groups, base) = 0
    THEN Append(groups, [base |-> base, group |-> <<algo>>])
    ELSE [groups EXCEPT ![KeyIndex(groups, base)].group = Append(@, algo)]

\* Lines 183-187 for the first n algorithms.
RECURSIVE GroupAlgos(_, _)
GroupAlgos(algos, n) ==
    IF n = 0 THEN <<>>
    ELSE AppendToGroup(GroupAlgos(algos, n - 1), Base(algos[n]), algos[n])

\* algo_to_group.get(args.algo) (line 190).
GetGroup(mapping, algo) == IF algo \in DOMAIN mapping THEN mapping[algo] ELSE None

\* Faulty variant of FilterRuns: args.algo is left out of the allowed keys.
FilterRunsGroupOnly(all_runs, algo, group) ==
    [a \in { b \in DOMAIN all_runs : b \in Range(group) } |-> all_runs[a]]

\* Lines 199-204: the entries of runs whose key is args.algo or in group.
FilterRuns(all_runs, algo, group) ==
    LET allowed_algorithm_keys == <<algo>> \o group
    IN  [a \in { b \in DOMAIN all_runs : b \in Range(allowed_algorithm_keys) } |->
            all_runs[a]]

\* Line 206: the name of a comparison plot.
CompareFile(algo, base) == <<"plots/", "/">> \o algo \o <<"-vs-">> \o base \o <<"-", "dataset", ".png">>

\* Lines 162-164: the name of the overall plot, args.output when it is
\* given.
OutputFile(output, batch) ==
    IF output = None \/ output = <<>>
    THEN <<"plots/", "/", "dataset">> \o (IF batch THEN <<"-batch">> ELSE <<>>) \o <<".png">>
    ELSE output

\* The -o, --batch and --raw arguments of the model: none of them,
\* --batch with --raw, a path of its own, and the path of a comparison
\* plot with --raw.
OutputArgs ==
    { [output |-> None, batch |-> FALSE, raw |-> FALSE],
      [output |-> None, batch |-> TRUE, raw |-> TRUE],
      [output |-> <<"custom.png">>, batch |-> FALSE, raw |-> FALSE],
      [output |-> CompareFile(<<"p">>, <<"q">>), batch |-> FALSE, raw |-> TRUE] }

\* The truth value of args.algo (line 178).
Truthy(algo) == algo # None /\ algo # <<>>

\* The exporter's state while the plotter runs.
ExportIdle ==
    /\ datasets = <<>>
    /\ store = <<>>
    /\ di = 1
    /\ dfs = <<>>
    /\ providerCalls = <<>>
    /\ engineCalls = <<>>
    /\ priorFile = NoFile
    /\ file = NoFile
    /\ fileOpen = FALSE
    /\ opens = 0
    /\ wi = 1

\* Sequences over S of length at most n without repetition.
DistinctSeqs(S, n) ==
    { s \in SeqsUpTo(S, n) : \A a, b \in DOMAIN s : a # b => s[a] # s[b] }

\* A projected record with both metrics.
Point(x, y) == [k \in {"x", "y"} |-> IF k = "x" THEN x ELSE y]

\* The record lists an algorithm has in the plotter's flow: one drawable
\* record, or one record that lacks the y metric.
PlotData == { <<Point(1, 2)>>, <<[k \in {"x"} |-> 1]>> }

\* The arguments and the runs of the plotter.  -o, --batch and --raw vary
\* with the default --x-scale.
InitPlot ==
    /\ pc = "plot_check"
    /\ raised = NoError
    /\ unique_algorithms \in DistinctSeqs(AlgoNames, MaxAlgos)
    /\ args_algo \in AlgoNames \cup {None}
    /\ x_axis = "k-nn"
    /\ y_axis = "qps"
    /\ x_scale \in XScales
    /\ \E o \in OutputArgs :
          /\ args_output = o.output
          /\ args_batch = o.batch
          /\ args_raw = o.raw
          /\ x_scale # Linear => o.output = None /\ ~ o.batch
    /\ \E S \in SUBSET Range(unique_algorithms) : runs \in [S -> PlotData]
    /\ grouped_algos = <<>>
    /\ algo_to_group = <<>>
    /\ args_group = None
    /\ gi = 1
    /\ plots = <<>>
    /\ ExportIdle

\* Lines 172-173: no runs, the script raises Exception("Nothing to plot").
NothingToPlot ==
    /\ pc = "plot_check"
    /\ DOMAIN runs = {}
    /\ raised' = "Exception"
    /\ pc' = "failed"
    /\ UNCHANGED <<plotVars, exportVars>>

\* Line 172 with runs: the script goes on to line 178.
RunsFound ==
    /\ pc = "plot_check"
    /\ DOMAIN runs # {}
    /\ pc' = "plot_algo"
    /\ UNCHANGED <<plotVars, exportVars, raised>>

\* Lines 178-192 with --algo: the algorithms are grouped by base.
GroupAlgorithms ==
    /\ pc = "plot_algo"
    /\ Truthy(args_algo)
    /\ grouped_algos' = GroupAlgos(unique_algorithms, Len(unique_algorithms))
    /\ algo_to_group' = [a \in Range(unique_algorithms) |-> Base(a)]
    /\ args_group' = GetGroup([a \in Range(unique_algorithms) |-> Base(a)], args_algo)
    /\ gi' = 1
    /\ pc' = "plot_compare"
    /\ UNCHANGED <<plotArgs, plots>>
    /\ UNCHANGED <<exportVars, raised>>

\* Line 178 without --algo.
NoAlgoFilter ==
    /\ pc = "plot_algo"
    /\ ~ Truthy(args_algo)
    /\ pc' = "plot_overall"
    /\ UNCHANGED <<plotVars, exportVars, raised>>

\* Lines 195-197: the group of args.algo is skipped.
SkipOwnGroup ==
    /\ pc = "plot_compare"
    /\ gi <= Len(grouped_algos)
    /\ grouped_algos[gi].base = args_group
    /\ gi' = gi + 1
    /\ UNCHANGED <<plotArgs,
                   grouped_algos, algo_to_group, args_group, plots>>
    /\ UNCHANGED <<pc, exportVars, raised>>

\* Lines 199-210: args.algo is plotted against one other group.
ComparisonPlot ==
    /\ pc = "plot_compare"
    /\ gi <= Len(grouped_algos)
    /\ grouped_algos[gi].base # args_group
    /\ LET base == grouped_algos[gi].base
           group == grouped_algos[gi].group
           filtered_results == FilterRuns(runs, args_algo, group)
           output_file == CompareFile(args_algo, base)
           plot == create_plot(filtered_results, args_raw, x_scale,
                               x_axis, y_axis, output_file)
       IN  /\ NoError \in plot.raises
           /\ plots' = Append(plots, plot.image)
    /\ gi' = gi + 1
    /\ UNCHANGED <<plotArgs,
                   grouped_algos, algo_to_group, args_group>>
    /\ UNCHANGED <<pc, exportVars, raised>>

\* Lines 199-210: create_plot raises and the script ends.
ComparisonPlotRaises ==
    /\ pc = "plot_compare"
    /\ gi <= Len(grouped_algos)
    /\ grouped_algos[gi].base # args_group
    /\ LET base == grouped_algos[gi].base
           group == grouped_algos[gi].group
           filtered_results == FilterRuns(runs, args_algo, group)
           output_file == CompareFile(args_algo, base)
           plot == create_plot(filtered_results, args_raw, x_scale,
                               x_axis, y_axis, output_file)
       IN  \E e \in plot.raises \ {NoError} : raised' = e
    /\ pc' = "failed"
    /\ UNCHANGED <<plotVars, exportVars>>

\* The loop of line 195 is over.
GroupsDone ==
    /\ pc = "plot_compare"
    /\ gi > Len(grouped_algos)
    /\ pc' = "plot_overall"
    /\ UNCHANGED <<plotVars, exportVars, raised>>

\* Lines 213-215: the plot of all runs.
OverallPlot ==
    /\ pc = "plot_overall"
    /\ LET plot == create_plot(runs, args_raw, x_scale, x_axis, y_axis,
                               OutputFile(args_output, args_batch))
       IN  /\ NoError \in plot.raises
           /\ plots' = Append(plots, plot.image)
    /\ pc' = "done"
    /\ UNCHANGED <<plotArgs,
                   grouped_algos, algo_to_group, args_group, gi>>
    /\ UNCHANGED <<exportVars, raised>>

\* Lines 213-215: create_plot raises and the script ends.
OverallPlotRaises ==
    /\ pc = "plot_overall"
    /\ LET plot == create_plot(runs, args_raw, x_scale, x_axis, y_axis,
                               OutputFile(args_output, args_batch))
       IN  \E e \in plot.raises \ {NoError} : raised' = e
    /\ pc' = "failed"
    /\ UNCHANGED <<plotVars, exportVars>>

NextPlot ==
    \/ NothingToPlot
    \/ RunsFound
    \/ GroupAlgorithms
    \/ NoAlgoFilter
    \/ SkipOwnGroup
    \/ ComparisonPlot
    \/ ComparisonPlotRaises
    \/ GroupsDone
    \/ OverallPlot
    \/ OverallPlotRaises

SpecPlot == InitPlot /\ [][NextPlot]_vars

\* The projected records one algorithm may have: every point of the value
\* grid, a record lacking y and a record lacking x.
Entries ==
    { Point(x, y) : x \in 1..MaxVal, y \in 1..MaxVal }
        \cup { [k \in {"x"} |-> 1], [k \in {"y"} |-> 1] }

\* The plotter run on the records of one algorithm, without --algo and
\* --raw, for every choice of the two axes' orientations; a rejected
\* --x-scale comes with a single record.
InitFrontier ==
    /\ pc = "plot_check"
    /\ raised = NoError
    /\ unique_algorithms = << <<"p">> >>
    /\ args_algo = None
    /\ args_raw = FALSE
    /\ x_axis \in {"k-nn", "distcomp"}
    /\ y_axis \in {"qps", "build"}
    /\ args_output = None
    /\ args_batch = FALSE
    /\ \E data \in SeqsUpTo(Entries, MaxPoints) \ {<<>>} :
          /\ runs = [a \in { <<"p">> } |-> data]
          /\ x_scale \in {Linear} \cup (IF Len(data) = 1 THEN { <<97, 98, 99>> } ELSE {})
    /\ grouped_algos = <<>>
    /\ algo_to_group = <<>>
    /\ args_group = None
    /\ gi = 1
    /\ plots = <<>>
    /\ ExportIdle

NextFrontier ==
    \/ RunsFound
    \/ NoAlgoFilter
    \/ OverallPlot
    \/ OverallPlotRaises

SpecFrontier == InitFrontier /\ [][NextFrontier]_vars

-----------------------------------------------------------------------------
(* Properties of the exporter *)

ExportEnded == pc \in {"done", "failed"}

\* The datasets the loop of line 42 has gone through.
Processed == SubSeq(datasets, 1, di - 1)

StoreEmpty(dataset_name) == store[dataset_name] = <<>>

StoreNonEmpty(dataset_name) == store[dataset_name] # <<>>

\* The records the metrics engine returns for a dataset, each paired with
\* the dataset's name.
EngineRecords(dataset_name) ==
    LET m == compute_metrics_all_runs(get_dataset(dataset_name),
                                      load_all_results(store, dataset_name))
    IN  [k \in DOMAIN m |-> [dataset |-> dataset_name, rec |-> m[k]]]

AllEngineRecords(names) == Concat([k \in DOMAIN names |-> EngineRecords(names[k])])

\* The value a table row holds in the column named key.
Field(row, header, key) == row[CHOOSE k \in DOMAIN header : header[k] = key]

\* C1: a dataset whose store yields zero run records adds no row and does
\* not raise: get_dataset and compute_metrics_all_runs are called exactly
\* for the datasets with stored runs, in order, and the rows collected are
\* those of the dataset list with the empty datasets removed.
C1_EmptyDatasetSkipped ==
    LET nonEmpty == SelectSeq(Processed, StoreNonEmpty)
        expected == AllEngineRecords(nonEmpty)
    IN  /\ providerCalls = nonEmpty
        /\ engineCalls = nonEmpty
        /\ Len(dfs) = Len(expected)
        /\ \A k \in DOMAIN dfs :
              dfs[k] = SetDataset(expected[k].rec, expected[k].dataset)
        /\ \A k \in DOMAIN dfs : ~ StoreEmpty(dfs[k]["dataset"])
        /\ (pc = "export_loop" => raised = NoError)

\* An empty dataset was gone through before a dataset with rows.
C1_Witness ==
    /\ pc = "done"
    /\ Len(datasets) = 2
    /\ StoreEmpty(datasets[1])
    /\ Len(dfs) = 2
    /\ providerCalls = <<datasets[2]>>

\* C2: when the exporter finishes normally the table has one data row per
\* record the metrics engine returned, a row's dataset field is the name of
\* the dataset whose runs produced the record, and the rows are in dataset
\* order and, within a dataset, in the engine's order.
C2_OneRowPerRecord ==
    pc = "done" =>
        LET expected == AllEngineRecords(datasets)
            rows == IF opens > 0 THEN file.rows ELSE <<>>
        IN  /\ Len(rows) = Len(expected)
            /\ \A k \in DOMAIN rows :
                  /\ Field(rows[k], file.header, "dataset") = expected[k].dataset
                  /\ \A key \in DOMAIN expected[k].rec :
                        Field(rows[k], file.header, key) = expected[k].rec[key]

\* Two datasets with two records each were exported.
C2_Witness ==
    /\ pc = "done"
    /\ Len(file.rows) = 4
    /\ Field(file.rows[1], file.header, "dataset") = "glove"
    /\ Field(file.rows[4], file.header, "dataset") = "sift"
    /\ Field(file.rows[3], file.header, "parameters") = "r1"

\* C3: the columns of the table are the union of the keys of all collected
\* records, a record lacking a column is written with an empty value
\* there, and the export completes without error.
C3_ColumnsAreUnion ==
    (ExportEnded /\ Len(dfs) > 0) =>
        /\ raised = NoError
        /\ Range(file.header) = UNION { DOMAIN dfs[k] : k \in DOMAIN dfs }
        /\ Len(file.rows) = Len(dfs)
        /\ \A k \in DOMAIN dfs : \A c \in DOMAIN file.header :
              file.header[c] \notin DOMAIN dfs[k] => file.rows[k][c] = ""

\* C5: a malformed run record is skipped and every well-formed record of
\* the same batch and of every other dataset still has its row in the
\* table when the invocation ends.
C5_MalformedSkipped ==
    (ExportEnded /\ \E d \in DOMAIN store : "malformed" \in Range(store[d])) =>
        LET expected == AllEngineRecords(datasets)
            rows == IF opens > 0 THEN file.rows ELSE <<>>
        IN  /\ raised = NoError
            /\ Len(rows) = Len(expected)
            /\ \A k \in DOMAIN rows :
                  /\ Field(rows[k], file.header, "dataset") = expected[k].dataset
                  /\ Field(rows[k], file.header, "parameters") = expected[k].rec["parameters"]

\* C6: on every path the file is closed when the invocation ends, and then
\* it holds the header and all collected rows or is as before the
\* invocation.
C6_ScopedAtomicWrite ==
    ExportEnded =>
        /\ ~ fileOpen
        /\ \/ file = priorFile
           \/ /\ file.exists
              /\ file.header = Keys(dfs[1])
              /\ Len(file.rows) = Len(dfs)

\* C10: the output file is opened if and only if at least one row was
\* collected; with no row collected the invocation ends normally and the
\* file is neither created nor modified.
C10_OpenedIffRows ==
    /\ opens <= 1
    /\ (opens = 1 => Len(dfs) > 0)
    /\ (file # priorFile => opens = 1)
    /\ (ExportEnded => (opens = 1 <=> Len(dfs) > 0))
    /\ ((ExportEnded /\ Len(dfs) = 0) =>
            pc = "done" /\ raised = NoError /\ file = priorFile /\ ~ fileOpen)

\* The engine returned no record for a dataset with stored runs, and an
\* existing file was left as it was.
C10_Witness ==
    /\ pc = "done"
    /\ dfs = <<>>
    /\ \E d \in DOMAIN store : StoreNonEmpty(d)
    /\ priorFile = OldFile
    /\ file = OldFile

-----------------------------------------------------------------------------
(* Properties of the plotter *)

\* The raw point cloud of an algorithm: its records that have both metrics.
Cloud(algo) == SelectSeq(runs[algo], Projected)

AtLeastAsGood(m, a, b) == a = b \/ Better(m, a, b)

\* Point (ax, ay) dominates point (bx, by): at least as good on both axes
\* and strictly better on one, by each axis's orientation.
Dominates(ax, ay, bx, by) ==
    /\ AtLeastAsGood(x_axis, ax, bx)
    /\ AtLeastAsGood(y_axis, ay, by)
    /\ (Better(x_axis, ax, bx) \/ Better(y_axis, ay, by))

\* C4: when the point set is empty for every algorithm the invocation ends
\* with a fatal failure and no image is written.
C4_NothingToDrawIsFatal ==
    (\A a \in DOMAIN runs : Cloud(a) = <<>>) =>
        /\ plots = <<>>
        /\ (pc \in {"done", "failed"} => pc = "failed" /\ raised = "Exception")

\* C7: no point of an algorithm's raw point cloud dominates a point of the
\* frontier drawn as its primary curve.
C7_FrontierNotDominated ==
    \A n \in DOMAIN plots : \A a \in DOMAIN plots[n].curves :
        LET c == plots[n].curves[a]
        IN  \A k \in DOMAIN c.xs : \A j \in DOMAIN Cloud(a) :
                ~ Dominates(Cloud(a)[j]["x"], Cloud(a)[j]["y"], c.xs[k], c.ys[k])

\* A cloud of three points, one of them dominated, drawn as a frontier of
\* two points.
C7_Witness ==
    /\ pc = "done"
    /\ Len(Cloud(<<"p">>)) = 3
    /\ Len(plots[1].curves[<<"p">>].xs) = 2
    /\ \E j, k \in 1..3 :
          Dominates(Cloud(<<"p">>)[j]["x"], Cloud(<<"p">>)[j]["y"],
                    Cloud(<<"p">>)[k]["x"], Cloud(<<"p">>)[k]["y"])

\* What C8 says of every frontier but for the order of y: the two series
\* are of one length, an empty projection gives an empty frontier and
\* identical points give one point.  No failure of the flow is one of the
\* reducer: the one failure is create_plot's, of the --x-scale.
C8_Frontiers ==
    /\ (pc = "failed" => raised \in ScaleErrors(x_scale) \ {NoError})
    /\ \A n \in DOMAIN plots : \A a \in DOMAIN plots[n].curves :
          LET c == plots[n].curves[a]
          IN  /\ Len(c.xs) = Len(c.ys)
              /\ (Cloud(a) = <<>> => c.xs = <<>>)
              /\ ((Cloud(a) # <<>> /\ \A j \in DOMAIN Cloud(a) : Cloud(a)[j] = Cloud(a)[1])
                    => c.xs = <<Cloud(a)[1]["x"]>> /\ c.ys = <<Cloud(a)[1]["y"]>>)
    /\ (pc = "done" => Len(plots) = 1)

\* C8 as it is stated: along the frontier x strictly improves and y
\* weakly improves.
C8_ImprovingInY ==
    /\ C8_Frontiers
    /\ \A n \in DOMAIN plots : \A a \in DOMAIN plots[n].curves :
          LET c == plots[n].curves[a]
          IN  \A k \in 1..(Len(c.xs) - 1) :
                 /\ Better(x_axis, c.xs[k + 1], c.xs[k])
                 /\ AtLeastAsGood(y_axis, c.ys[k + 1], c.ys[k])

\* C8: along the frontier drawn as the primary curve x strictly improves
\* and y strictly worsens, by each axis's orientation; an empty projection
\* gives an empty frontier without error and identical points give one
\* point.
C8_FrontierMonotonic ==
    /\ C8_Frontiers
    /\ \A n \in DOMAIN plots : \A a \in DOMAIN plots[n].curves :
          LET c == plots[n].curves[a]
          IN  \A k \in 1..(Len(c.xs) - 1) :
                 /\ Better(x_axis, c.xs[k + 1], c.xs[k])
                 /\ Better(y_axis, c.ys[k], c.ys[k + 1])

\* A frontier of three points drawn from three records.
C8_Witness ==
    /\ pc = "done"
    /\ Len(runs[<<"p">>]) = 3
    /\ Len(plots[1].curves[<<"p">>].xs) = 3
    /\ x_axis = "distcomp"
    /\ y_axis = "qps"

\* The empty projection and the identical points of C8 both happen.
C8_EdgeWitness ==
    /\ pc = "done"
    /\ raised = NoError
    /\ x_scale = Linear
    /\ Len(runs[<<"p">>]) = 3
    /\ runs[<<"p">>][1] = runs[<<"p">>][2]
    /\ runs[<<"p">>][2] = runs[<<"p">>][3]
    /\ Len(plots[1].curves[<<"p">>].xs) = 1

\* The groups of the algorithms, by the part of the name before the
\* first "-".
Bases == { Base(a) : a \in Range(unique_algorithms) }

OwnBases == IF args_algo \in Range(unique_algorithms) THEN {Base(args_algo)} ELSE {}

\* The entries of runs whose algorithm is args.algo or a member of the
\* group of base b.
ComparedRuns(b) ==
    [a \in { c \in DOMAIN runs : c = args_algo \/ Base(c) = b } |-> runs[a]]

\* What C9 says of the calls of create_plot of one invocation.
C9_Rendered ==
    LET others == IF Truthy(args_algo) THEN Bases \ OwnBases ELSE {}
        last == Len(plots)
    IN  /\ last = Cardinality(others) + 1
        /\ \A b \in others :
              /\ Cardinality({ k \in 1..(last - 1) :
                                 plots[k].fn_out = CompareFile(args_algo, b) }) = 1
              /\ \A k \in 1..(last - 1) :
                    plots[k].fn_out = CompareFile(args_algo, b) =>
                        plots[k] = create_plot(ComparedRuns(b), args_raw, x_scale, x_axis,
                                               y_axis, CompareFile(args_algo, b)).image
        /\ \A b \in OwnBases : \A k \in 1..(last - 1) :
              plots[k].fn_out # CompareFile(args_algo, b)
        /\ plots[last] = create_plot(runs, args_raw, x_scale, x_axis, y_axis,
                                     OutputFile(args_output, args_batch)).image

PlotEnded == pc \in {"done", "failed"}

C9_RenderedSoFar ==
    LET others == IF Truthy(args_algo) THEN Bases \ OwnBases ELSE {}
    IN  /\ \A k \in DOMAIN plots : \E b \in others :
              plots[k] = create_plot(ComparedRuns(b), args_raw, x_scale, x_axis,
                                     y_axis, CompareFile(args_algo, b)).image
        /\ \A j, k \in DOMAIN plots : plots[j].fn_out = plots[k].fn_out => j = k
        /\ Len(plots) < Cardinality(others) + 1

C9_Plots ==
    /\ pc = "done" => C9_Rendered /\ NoError \in ScaleErrors(x_scale)
    /\ (pc = "failed" /\ DOMAIN runs # {}) =>
            /\ raised \in ScaleErrors(x_scale) \ {NoError}
            /\ C9_RenderedSoFar
    /\ (PlotEnded /\ DOMAIN runs # {} /\ ScaleErrors(x_scale) = {NoError}) => pc = "done"
    /\ (PlotEnded /\ NoError \notin ScaleErrors(x_scale)) => pc = "failed" /\ plots = <<>>

=============================================================================
